---- MODULE Spec2Model ----
(***************************************************************************)
(* Model of src/tools/testing.py: the evaluation helpers                   *)
(* split_ratings_dataset, split_testing_set, coverage and diversity, run   *)
(* by the threads of one process that share numpy's global generator.      *)
(*                                                                         *)
(* A table is a sequence of rows.  A fraction is a pair <<num, den>>.     *)
(* A seed is <<>> (None) or <<n>>.                                         *)
(***************************************************************************)
EXTENDS Integers, Sequences, FiniteSets

VARIABLES
    ratings_df,   \* the caller's ratings table (argument of both splits)
    top_n_df,     \* the caller's recommendation table
    games_df,     \* the caller's item metadata table
    rng,          \* state of the process-wide generator np.random
    pc,           \* pc[t]: where thread t stands in its call
    call,         \* call[t]: function and arguments of thread t's call
    loc,          \* loc[t]: locals of split_testing_set's loop
    out,          \* out[t]: what the call returned (or raised)
    entry,        \* entry[t]: generator state when the call was entered
    touched,      \* touched[t]: another thread seeded or drew during t's call
    prev          \* the previous completed run (SpecRuns only)

vars == <<ratings_df, top_n_df, games_df, rng, pc, call, loc, out, entry,
          touched, prev>>

----------------------------------------------------------------------------
(* Bounds of the model *)

MaxRows == 3
MaxRunRows == 2
MaxThreadRows == 2
MaxRecs == 4
MaxSeed == 1
RngMod == 7

UserNames == <<"u1", "u2", "u3">>
Users == {UserNames[i] : i \in 1..Len(UserNames)}
Items == {1, 2}
Threads == {1, 2}

None == <<>>
Seeds == {None} \cup {<<n>> : n \in 0..MaxSeed}

\* frac=0.7 (line 6) and frac=0.8 (line 27) are the defaults
DefaultRatingsFrac == <<7, 10>>
DefaultTestingFrac == <<8, 10>>
Fracs == {<<0, 1>>, <<1, 2>>, DefaultRatingsFrac, DefaultTestingFrac, <<1, 1>>}

RatingRows == [bgg_user_name : Users, bgg_id : Items]

\* recommendation rows: two users, and item 3 that no catalogue lists
RecUsers == {"u1", "u2"}
RecItems == Items \cup {3}
RecRows == [bgg_user_name : RecUsers, bgg_id : RecItems]

\* criterions=['category', 'mechanic'], line 68
Criterions == <<"category", "mechanic">>
GameRows ==
    {[bgg_id |-> i, category |-> <<"A", "B">>, mechanic |-> <<>>] : i \in Items}
    \cup {[bgg_id |-> i, category |-> <<"B", "C">>, mechanic |-> <<"M">>] : i \in Items}
\* the catalogues: at most one row per item, in the order of the identifiers
GameTables ==
    {<<>>} \cup {<<g>> : g \in GameRows}
           \cup {<<g, h>> : g \in {x \in GameRows : x.bgg_id = 1},
                            h \in {x \in GameRows : x.bgg_id = 2}}

RECURSIVE SeqsUpTo(_, _)
SeqsUpTo(S, n) ==
    IF n = 0 THEN {<<>>}
    ELSE LET shorter == SeqsUpTo(S, n - 1)
         IN  shorter \cup {Append(s, x) : s \in {q \in shorter : Len(q) = n - 1}, x \in S}

----------------------------------------------------------------------------
(* Sequence helpers *)

Range(s) == {s[i] : i \in 1..Len(s)}

RECURSIVE Concat(_)
Concat(ss) == IF ss = <<>> THEN <<>> ELSE Head(ss) \o Concat(Tail(ss))

Swap(s, i, j) == [s EXCEPT ![i] = s[j], ![j] = s[i]]

Column(df) == [i \in 1..Len(df) |-> df[i].bgg_user_name]

\* df[df['bgg_user_name'].isin(keep)]: the rows kept, in the table's order
RowsOf(df, keep) ==
    LET RECURSIVE Go(_)
        Go(s) == IF s = <<>> THEN <<>>
                 ELSE IF Head(s).bgg_user_name \in keep
                      THEN <<Head(s)>> \o Go(Tail(s))
                      ELSE Go(Tail(s))
    IN  Go(df)

RECURSIVE UniqueFrom(_, _)
UniqueFrom(s, seen) ==
    IF s = <<>> THEN <<>>
    ELSE IF Head(s) \in seen THEN UniqueFrom(Tail(s), seen)
         ELSE <<Head(s)>> \o UniqueFrom(Tail(s), seen \cup {Head(s)})

\* Series.unique(): the distinct values in order of first appearance
Unique(s) == UniqueFrom(s, {})

----------------------------------------------------------------------------
(* numpy's global generator, abstracted to a small congruential generator *)

RngStates == 0..(RngMod - 1)

\* np.random.seed(seed): the state becomes a function of the seed alone
SeedState(seed) == (seed[1] * 2 + 1) % RngMod

\* one raw draw: the generator advances
Advance(s) == (3 * s + 1) % RngMod

\* rk_interval(max): a value in 0..max taken from the advanced state
Interval(s, max) == (Advance(s) * (max + 1)) \div RngMod

RECURSIVE ShuffleFrom(_, _, _)
\* np.random.shuffle: for i in reversed(range(1, n)): j = interval(i); swap
ShuffleFrom(arr, s, i) ==
    IF i < 1 THEN [arr |-> arr, rng |-> s]
    ELSE ShuffleFrom(Swap(arr, i + 1, Interval(s, i) + 1), Advance(s), i - 1)

Shuffle(arr, s) == ShuffleFrom(arr, s, Len(arr) - 1)

\* np.random.choice(n, size, replace=False) == permutation(n)[:size]
Choice(n, size, s) ==
    LET p == Shuffle([i \in 1..n |-> i - 1], s)
    IN  [idx |-> SubSeq(p.arr, 1, size), rng |-> p.rng]

----------------------------------------------------------------------------
(* Arithmetic on fractions *)

\* rounding halves upward, as Python 2's round did for values >= 0
KnownSizeHalfUp(frac, n) == (2 * frac[1] * n + frac[2]) \div (2 * frac[2])

\* int(round(frac * n)), line 45: Python 3 rounds halves to the even integer
KnownSize(frac, n) ==
    LET q == (frac[1] * n) \div frac[2]
        r == (frac[1] * n) % frac[2]
    IN  IF 2 * r < frac[2] THEN q
        ELSE IF 2 * r > frac[2] THEN q + 1
        ELSE IF q % 2 = 0 THEN q ELSE q + 1

\* rounding where the code truncates
TrainSizeRounded(frac, k) == KnownSize(frac, k)

\* int(frac * k), line 19: truncation, the floor of a value >= 0
TrainSize(frac, k) == (frac[1] * k) \div frac[2]

----------------------------------------------------------------------------
(* split_ratings_dataset, lines 17-24 *)

\* users[:train_size] and users[train_size:], lines 21-22
TrainUsers(users, train_size) == Range(SubSeq(users, 1, train_size))
\* a slice that starts one user too late
TestUsersLate(users, train_size) == Range(SubSeq(users, train_size + 2, Len(users)))

TestUsers(users, train_size) == Range(SubSeq(users, train_size + 1, Len(users)))

\* lines 17-24 from generator state s: the two tables and the state left
SplitRatings(df, frac, s) ==
    LET sh == Shuffle(Unique(Column(df)), s)
        train_size == TrainSize(frac, Len(sh.arr))
    IN  [train_df |-> RowsOf(df, TrainUsers(sh.arr, train_size)),
         test_df |-> RowsOf(df, TestUsers(sh.arr, train_size)),
         rng |-> sh.rng]

\* the shuffle acting on the column itself, as it would on a view of it
ColumnShuffledInPlace(df, s) == Shuffle(Column(df), s).arr

\* what the shuffle of line 18 leaves in the caller's user column: nothing
\* changes, as unique() returned a new array
ColumnAfterShuffle(df, s) == Column(df)

TableWithColumn(df, col) ==
    [i \in 1..Len(df) |-> [df[i] EXCEPT !.bgg_user_name = col[i]]]

----------------------------------------------------------------------------
(* split_testing_set, lines 39-54 *)

\* groupby(by='bgg_user_name'): the keys present, in sorted order
GroupKeys(df) ==
    LET present == Range(Column(df))
        RECURSIVE Go(_)
        Go(i) == IF i > Len(UserNames) THEN <<>>
                 ELSE (IF UserNames[i] \in present THEN <<UserNames[i]>> ELSE <<>>)
                      \o Go(i + 1)
    IN  Go(1)

\* df.iloc[indices]: the rows at the 0-based positions, in that order
ILoc(df, indices) == [k \in 1..Len(indices) |-> df[indices[k] + 1]]

\* np.setdiff1d(np.arange(n), known): the other positions, ascending
SetDiff1d(n, known) ==
    LET RECURSIVE Go(_)
        Go(i) == IF i >= n THEN <<>>
                 ELSE (IF i \in Range(known) THEN <<>> ELSE <<i>>) \o Go(i + 1)
    IN  Go(0)

\* one pass of the loop body, lines 43-52, on the group of user u
SampleGroup(df, u, frac, s) ==
    LET g == RowsOf(df, {u})
        df_size == Len(g)
        c == Choice(df_size, KnownSize(frac, df_size), s)
    IN  [known_data |-> ILoc(g, c.idx),
         unknown_data |-> ILoc(g, SetDiff1d(df_size, c.idx)),
         rng |-> c.rng]

\* pd.concat raises ValueError on an empty list of frames
ConcatFrames(frames) ==
    IF frames = <<>> THEN [status |-> "ValueError", df |-> <<>>]
    ELSE [status |-> "ok", df |-> Concat(frames)]

RECURSIVE SampleGroups(_, _, _, _, _)
\* the loop of lines 42-52 run from group i to the last, accumulating
SampleGroups(df, frac, s, i, acc) ==
    IF i > Len(GroupKeys(df)) THEN acc
    ELSE LET r == SampleGroup(df, GroupKeys(df)[i], frac, s)
         IN  SampleGroups(df, frac, r.rng, i + 1,
                          [test_known |-> Append(acc.test_known, r.known_data),
                           test_unknown |-> Append(acc.test_unknown, r.unknown_data),
                           rng |-> r.rng])

\* lines 39-54 from generator state s, with no other thread running
SplitTesting(df, frac, s) ==
    LET acc == SampleGroups(df, frac, s, 1,
                            [test_known |-> <<>>, test_unknown |-> <<>>, rng |-> s])
        k == ConcatFrames(acc.test_known)
        u == ConcatFrames(acc.test_unknown)
    IN  IF k.status = "ok" /\ u.status = "ok"
        THEN [status |-> "ok", first |-> k.df, second |-> u.df, value |-> <<>>]
        ELSE [status |-> "ValueError", first |-> <<>>, second |-> <<>>,
              value |-> <<>>]

----------------------------------------------------------------------------
(* The calls, step by step.  Each step holds at most one access to rng.    *)

NoCall == [fn |-> "none", seed |-> None, frac |-> <<0, 1>>]
NoLoc == [i |-> 1, test_known |-> <<>>, test_unknown |-> <<>>]
NoOut == [status |-> "none", first |-> <<>>, second |-> <<>>, value |-> <<>>]
NoRun == [call |-> NoCall, entry |-> 0, out |-> NoOut]

\* the threads inside the span from their seeding to their last draw
InWindow(u) == pc[u] \in {"l17", "l42"}

\* thread t seeds or draws: every other thread inside its window is touched
Touch(t) == [u \in Threads |-> touched[u] \/ (u # t /\ InWindow(u))]

\* the seeding left out
SeededNever(seed, s) == s

\* the generator after "if seed is not None: np.random.seed(seed)"
Seeded(seed, s) == IF seed # None THEN SeedState(seed) ELSE s

FirstPc(fn) == IF fn = "split_ratings_dataset" THEN "l17" ELSE "l42"

\* a call is entered and runs its lines 14-15 (36-37): the optional seeding
EnterWith(t, fn, seed, frac) ==
    /\ pc[t] = "idle"
    /\ call' = [call EXCEPT ![t] = [fn |-> fn, seed |-> seed, frac |-> frac]]
    /\ rng' = Seeded(seed, rng)
    /\ touched' = IF seed # None THEN [Touch(t) EXCEPT ![t] = FALSE]
                  ELSE [touched EXCEPT ![t] = FALSE]
    /\ pc' = [pc EXCEPT ![t] = FirstPc(fn)]
    /\ loc' = [loc EXCEPT ![t] = NoLoc]
    /\ out' = [out EXCEPT ![t] = NoOut]
    /\ UNCHANGED <<ratings_df, top_n_df, games_df>>

CallSplitRatings(t) ==
    /\ \E seed \in Seeds, frac \in Fracs :
          EnterWith(t, "split_ratings_dataset", seed, frac)
    /\ UNCHANGED <<entry, prev>>

CallSplitTesting(t) ==
    /\ \E seed \in Seeds, frac \in Fracs :
          EnterWith(t, "split_testing_set", seed, frac)
    /\ UNCHANGED <<entry, prev>>

\* the calls with frac left to its default
CallSplitRatingsDefault(t) ==
    /\ \E seed \in Seeds :
          EnterWith(t, "split_ratings_dataset", seed, DefaultRatingsFrac)
    /\ UNCHANGED <<entry, prev>>

CallSplitTestingDefault(t) ==
    /\ \E seed \in Seeds :
          EnterWith(t, "split_testing_set", seed, DefaultTestingFrac)
    /\ UNCHANGED <<entry, prev>>

\* lines 17-24: unique, shuffle, the two selections, return
ShuffleUsers(t) ==
    /\ pc[t] = "l17"
    /\ LET r == SplitRatings(ratings_df, call[t].frac, rng)
       IN  /\ rng' = r.rng
           /\ out' = [out EXCEPT ![t] = [status |-> "ok", first |-> r.train_df,
                                         second |-> r.test_df, value |-> <<>>]]
    /\ ratings_df' = TableWithColumn(ratings_df, ColumnAfterShuffle(ratings_df, rng))
    /\ touched' = Touch(t)
    /\ pc' = [pc EXCEPT ![t] = "done"]
    /\ UNCHANGED <<top_n_df, games_df, call, loc, entry, prev>>

\* lines 42-52: one pass of the loop over the groups
SampleNextGroup(t) ==
    /\ pc[t] = "l42"
    /\ loc[t].i <= Len(GroupKeys(ratings_df))
    /\ LET r == SampleGroup(ratings_df, GroupKeys(ratings_df)[loc[t].i],
                            call[t].frac, rng)
       IN  /\ rng' = r.rng
           /\ loc' = [loc EXCEPT ![t] =
                        [i |-> loc[t].i + 1,
                         test_known |-> Append(loc[t].test_known, r.known_data),
                         test_unknown |-> Append(loc[t].test_unknown, r.unknown_data)]]
    /\ touched' = Touch(t)
    /\ UNCHANGED <<ratings_df, top_n_df, games_df, pc, call, out, entry, prev>>

\* line 54: return pd.concat(test_known), pd.concat(test_unknown)
ConcatReturn(t) ==
    /\ pc[t] = "l42"
    /\ loc[t].i > Len(GroupKeys(ratings_df))
    /\ LET k == ConcatFrames(loc[t].test_known)
           u == ConcatFrames(loc[t].test_unknown)
       IN  out' = [out EXCEPT ![t] =
                     IF k.status = "ok" /\ u.status = "ok"
                     THEN [status |-> "ok", first |-> k.df, second |-> u.df,
                           value |-> <<>>]
                     ELSE [status |-> "ValueError", first |-> <<>>,
                           second |-> <<>>, value |-> <<>>]]
    /\ pc' = [pc EXCEPT ![t] = "done"]
    /\ loc' = [loc EXCEPT ![t] = NoLoc]
    /\ UNCHANGED <<ratings_df, top_n_df, games_df, rng, call, entry, touched, prev>>

\* the caller takes the result and is free to call again
Return(t) ==
    /\ pc[t] = "done"
    /\ pc' = [pc EXCEPT ![t] = "idle"]
    /\ call' = [call EXCEPT ![t] = NoCall]
    /\ out' = [out EXCEPT ![t] = NoOut]
    /\ touched' = [touched EXCEPT ![t] = FALSE]
    /\ UNCHANGED <<ratings_df, top_n_df, games_df, rng, loc, entry, prev>>

----------------------------------------------------------------------------
(* coverage, lines 63-65, and diversity, lines 79-95 *)

\* a metric that draws from the generator
RngAfterDraw(s) == Advance(s)

\* the generator after coverage or diversity: neither names np.random
RngAfterMetric(s) == s

\* counting the rows, not the distinct identifiers
CoverageOfRows(df) == Len(df)

\* top_n_df['bgg_id'].unique().size
CoverageOf(df) == Len(Unique([i \in 1..Len(df) |-> df[i].bgg_id]))

NaN == [na |-> TRUE, labels |-> <<>>]
Cell(labels) == [na |-> FALSE, labels |-> labels]

\* line 82: the left join on bgg_id; a recommendation without a catalogue
\* row keeps one joined row whose attribute cells are NaN
LeftJoin(recs, games) ==
    LET Matches(id) ==
            LET RECURSIVE Go(_)
                Go(g) == IF g = <<>> THEN <<>>
                         ELSE (IF Head(g).bgg_id = id
                               THEN <<[category |-> Cell(Head(g).category),
                                       mechanic |-> Cell(Head(g).mechanic)]>>
                               ELSE <<>>) \o Go(Tail(g))
            IN  Go(games)
        Joined(r) ==
            LET m == Matches(r.bgg_id)
            IN  IF m = <<>>
                THEN <<[bgg_user_name |-> r.bgg_user_name, bgg_id |-> r.bgg_id,
                        category |-> NaN, mechanic |-> NaN]>>
                ELSE [k \in 1..Len(m) |->
                        [bgg_user_name |-> r.bgg_user_name, bgg_id |-> r.bgg_id,
                         category |-> m[k].category, mechanic |-> m[k].mechanic]]
    IN  Concat([i \in 1..Len(recs) |-> Joined(recs[i])])

\* user_df[criterion].dropna(): the cells that are not NaN
DropNa(user_df, criterion) ==
    LET RECURSIVE Go(_)
        Go(d) == IF d = <<>> THEN <<>>
                 ELSE (IF Head(d)[criterion].na THEN <<>>
                       ELSE <<Head(d)[criterion].labels>>) \o Go(Tail(d))
    IN  Go(user_df)

\* np.hstack(cells): the concatenation; it raises ValueError when there is
\* no cell to concatenate
HStack(cells) ==
    IF cells = <<>> THEN [status |-> "ValueError", arr |-> <<>>]
    ELSE [status |-> "ok", arr |-> Concat(cells)]

\* line 88: np.unique(np.hstack(...)).size for one user and one criterion
UserCriterionDiversity(user_df, criterion) ==
    LET h == HStack(DropNa(user_df, criterion))
    IN  [status |-> h.status, size |-> Cardinality(Range(h.arr))]

RECURSIVE SumSeq(_)
SumSeq(s) == IF s = <<>> THEN 0 ELSE Head(s) + SumSeq(Tail(s))

\* lines 79-95: the mean of a criterion is the pair <<sum, count>> of the
\* per-user sizes; an exception in the loop ends the call
DiversityOf(recs, games) ==
    LET df == LeftJoin(recs, games)
        keys == GroupKeys(df)
        D(k, c) == UserCriterionDiversity(RowsOf(df, {keys[k]}), Criterions[c])
        raised == \E k \in 1..Len(keys), c \in 1..Len(Criterions) :
                      D(k, c).status # "ok"
    IN  IF raised
        THEN [status |-> "ValueError", first |-> <<>>, second |-> <<>>,
              value |-> <<>>]
        ELSE [status |-> "ok", first |-> <<>>, second |-> <<>>,
              value |-> [c \in 1..Len(Criterions) |->
                           <<SumSeq([k \in 1..Len(keys) |-> D(k, c).size]),
                             Len(keys)>>]]

Coverage(t) ==
    /\ pc[t] = "idle"
    /\ pc' = [pc EXCEPT ![t] = "done"]
    /\ call' = [call EXCEPT ![t] = [NoCall EXCEPT !.fn = "coverage"]]
    /\ out' = [out EXCEPT ![t] = [status |-> "ok", first |-> <<>>, second |-> <<>>,
                                  value |-> <<CoverageOf(top_n_df)>>]]
    /\ touched' = [touched EXCEPT ![t] = FALSE]
    /\ rng' = RngAfterMetric(rng)
    /\ UNCHANGED <<ratings_df, top_n_df, games_df, loc, entry, prev>>

Diversity(t) ==
    /\ pc[t] = "idle"
    /\ pc' = [pc EXCEPT ![t] = "done"]
    /\ call' = [call EXCEPT ![t] = [NoCall EXCEPT !.fn = "diversity"]]
    /\ out' = [out EXCEPT ![t] = DiversityOf(top_n_df, games_df)]
    /\ touched' = [touched EXCEPT ![t] = FALSE]
    /\ rng' = RngAfterMetric(rng)
    /\ UNCHANGED <<ratings_df, top_n_df, games_df, loc, entry, prev>>

----------------------------------------------------------------------------
(* Spec: one thread calls the two splits on a ratings table *)

InitCommon ==
    /\ rng \in RngStates
    /\ pc = [t \in Threads |-> "idle"]
    /\ call = [t \in Threads |-> NoCall]
    /\ loc = [t \in Threads |-> NoLoc]
    /\ out = [t \in Threads |-> NoOut]
    /\ entry = [t \in Threads |-> 0]
    /\ touched = [t \in Threads |-> FALSE]
    /\ prev = NoRun

Init ==
    /\ ratings_df \in SeqsUpTo(RatingRows, MaxRows)
    /\ top_n_df = <<>>
    /\ games_df = <<>>
    /\ InitCommon

Next ==
    \/ CallSplitRatings(1)
    \/ CallSplitTesting(1)
    \/ ShuffleUsers(1)
    \/ SampleNextGroup(1)
    \/ ConcatReturn(1)
    \/ Return(1)

Spec == Init /\ [][Next]_vars

----------------------------------------------------------------------------
(* Properties of the splits, checked under Spec *)

CountRow(df, r) == Cardinality({i \in 1..Len(df) : df[i] = r})
UsersOf(df) == Range(Column(df))
Done(t, fn) == pc[t] = "done" /\ call[t].fn = fn
LeqOne(frac) == frac[1] <= frac[2]

\* the floor of frac * k, by its definition: n <= frac * k < n + 1
FloorOf(frac, k) ==
    CHOOSE n \in 0..k : n * frac[2] <= frac[1] * k /\ frac[1] * k < (n + 1) * frac[2]

\* the integer nearest to frac * n, a half going to the even neighbour
NearestEven(frac, n) ==
    CHOOSE m \in 0..n :
        LET d == 2 * frac[1] * n - 2 * m * frac[2]
        IN  /\ d <= frac[2] /\ -d <= frac[2]
            /\ (d = frac[2] \/ -d = frac[2]) => m % 2 = 0

\* C1: split_ratings_dataset returns normally; the users of train and of
\* test are disjoint, together they are the users of the table, and every
\* row of the table is in exactly one of the two outputs (as multisets:
\* count in train + count in test = count in the table).
C1_ExactPartition ==
    \A t \in Threads : Done(t, "split_ratings_dataset") =>
        /\ out[t].status = "ok"
        /\ UsersOf(out[t].first) \cap UsersOf(out[t].second) = {}
        /\ UsersOf(out[t].first) \cup UsersOf(out[t].second) = UsersOf(ratings_df)
        /\ \A r \in RatingRows :
              CountRow(out[t].first, r) + CountRow(out[t].second, r)
                  = CountRow(ratings_df, r)

C1_Witness ==
    /\ Done(1, "split_ratings_dataset")
    /\ Len(ratings_df) = MaxRows
    /\ Cardinality(UsersOf(out[1].first)) = 1
    /\ Len(out[1].first) = 2
    /\ Len(out[1].second) = MaxRows - 2

\* C2: split_testing_set with the default frac returns normally for every
\* table, the empty one included, and for every user the rows of known and
\* of held-out together are exactly the user's rows in the table.
C2_PerUserPartition ==
    \A t \in Threads :
        (Done(t, "split_testing_set") /\ call[t].frac = DefaultTestingFrac) =>
            /\ out[t].status = "ok"
            /\ \A r \in RatingRows :
                  CountRow(out[t].first, r) + CountRow(out[t].second, r)
                      = CountRow(ratings_df, r)

\* the partition of C2 on the tables with at least one row (not a claim: the
\* part of C2 the code satisfies)
PerUserPartitionWhenNonEmpty ==
    \A t \in Threads :
        (Done(t, "split_testing_set") /\ ratings_df # <<>>) =>
            /\ out[t].status = "ok"
            /\ \A r \in RatingRows :
                  CountRow(out[t].first, r) + CountRow(out[t].second, r)
                      = CountRow(ratings_df, r)

\* C4 as stated: a user with a single rating has it in known, and nothing
\* held out, for every frac with 0.5 <= frac <= 1.
C4_SingleRatingKnownFromHalf ==
    \A t \in Threads : Done(t, "split_testing_set") =>
        \A u \in UsersOf(ratings_df) :
            (Len(RowsOf(ratings_df, {u})) = 1
                 /\ 2 * call[t].frac[1] >= call[t].frac[2] /\ LeqOne(call[t].frac))
            => /\ Len(RowsOf(out[t].first, {u})) = 1
               /\ Len(RowsOf(out[t].second, {u})) = 0

\* C4 amended: per user with n rows, known holds round(frac * n) rows, a
\* half rounding to the even integer, and held-out the other rows; a user
\* with a single rating has it in known for 0.5 < frac <= 1 and held out
\* for frac <= 0.5.
C4_KnownSizeHalfEven ==
    \A t \in Threads : Done(t, "split_testing_set") =>
        \A u \in UsersOf(ratings_df) :
            LET n == Len(RowsOf(ratings_df, {u}))
            IN  /\ Len(RowsOf(out[t].first, {u})) = NearestEven(call[t].frac, n)
                /\ Len(RowsOf(out[t].second, {u})) = n - NearestEven(call[t].frac, n)
                /\ n = 1 =>
                      Len(RowsOf(out[t].first, {u}))
                          = (IF 2 * call[t].frac[1] > call[t].frac[2] THEN 1 ELSE 0)

C4_Witness ==
    /\ Done(1, "split_testing_set")
    /\ call[1].frac = <<1, 2>>
    /\ \E u \in UsersOf(ratings_df) :
          /\ Len(RowsOf(ratings_df, {u})) = 1
          /\ Len(RowsOf(out[1].first, {u})) = 0
          /\ Len(RowsOf(out[1].second, {u})) = 1
    /\ \E u \in UsersOf(ratings_df) :
          /\ Len(RowsOf(ratings_df, {u})) = 2
          /\ Len(RowsOf(out[1].first, {u})) = 1

\* C8: with k users in the table the training cohort has floor(frac * k)
\* users and the test cohort the other k - floor(frac * k); the call returns
\* normally also when a cohort is empty, and with a single user exactly one
\* output is empty and the other holds all the rows.
C8_CohortSizes ==
    \A t \in Threads : Done(t, "split_ratings_dataset") =>
        LET k == Cardinality(UsersOf(ratings_df))
            n == FloorOf(call[t].frac, k)
        IN  /\ out[t].status = "ok"
            /\ Cardinality(UsersOf(out[t].first)) = n
            /\ Cardinality(UsersOf(out[t].second)) = k - n
            /\ k = 1 =>
                  \/ out[t].first = <<>> /\ out[t].second = ratings_df
                  \/ out[t].second = <<>> /\ out[t].first = ratings_df

C8_Witness ==
    /\ Done(1, "split_ratings_dataset")
    /\ Cardinality(UsersOf(ratings_df)) = 1
    /\ call[1].frac = DefaultRatingsFrac
    /\ out[1].first = <<>>
    /\ out[1].second = ratings_df
    /\ Len(ratings_df) = 2

----------------------------------------------------------------------------
(* SpecMetrics: one thread calls coverage and diversity *)

InitMetrics ==
    /\ ratings_df = <<>>
    /\ top_n_df \in SeqsUpTo(RecRows, MaxRecs)
    /\ games_df \in GameTables
    /\ InitCommon
    /\ rng = 0

NextMetrics ==
    \/ Coverage(1)
    \/ Diversity(1)
    \/ Return(1)

SpecMetrics == InitMetrics /\ [][NextMetrics]_vars

ItemsOf(df) == {df[i].bgg_id : i \in 1..Len(df)}

\* C7: coverage returns the number of distinct item identifiers: 0 for the
\* empty table, and the same number after any exchange of two rows and
\* after any repetition of a row already present.
C7_CoverageDistinct ==
    \A t \in Threads : Done(t, "coverage") =>
        /\ out[t].status = "ok"
        /\ out[t].value = <<Cardinality(ItemsOf(top_n_df))>>
        /\ top_n_df = <<>> => out[t].value = <<0>>
        /\ \A i, j \in 1..Len(top_n_df) :
              /\ CoverageOf(Swap(top_n_df, i, j)) = out[t].value[1]
              /\ CoverageOf(Append(top_n_df, top_n_df[i])) = out[t].value[1]

\* items [1,1,2,3] give 3
C7_Witness ==
    /\ Done(1, "coverage")
    /\ [i \in 1..Len(top_n_df) |-> top_n_df[i].bgg_id] = <<1, 1, 2, 3>>
    /\ out[1].value = <<3>>

\* the labels of criterion c over the catalogue rows of user u's items
LabelsOf(u, c) ==
    UNION {Range(games_df[g][c]) :
             g \in {h \in 1..Len(games_df) :
                      \E i \in 1..Len(top_n_df) :
                          /\ top_n_df[i].bgg_user_name = u
                          /\ top_n_df[i].bgg_id = games_df[h].bgg_id}}

RECURSIVE SumOver(_, _)
SumOver(S, c) ==
    IF S = {} THEN 0
    ELSE LET u == CHOOSE x \in S : TRUE
         IN  Cardinality(LabelsOf(u, c)) + SumOver(S \ {u}, c)

\* the mean of the per-user numbers of distinct labels, as <<sum, count>>
MeanDistinct(c) == <<SumOver(UsersOf(top_n_df), c), Cardinality(UsersOf(top_n_df))>>

AllAbsent(u) ==
    /\ u \in UsersOf(top_n_df)
    /\ \A i \in 1..Len(top_n_df) :
          top_n_df[i].bgg_user_name = u =>
              \A g \in 1..Len(games_df) : games_df[g].bgg_id # top_n_df[i].bgg_id

\* C3: when a user has only recommended items that the catalogue lacks,
\* diversity raises nothing and returns one mean per criterion, in which
\* that user counts for 0.
C3_AbsentItemsCountZero ==
    \A t \in Threads :
        (Done(t, "diversity") /\ \E u \in RecUsers : AllAbsent(u)) =>
            /\ out[t].status = "ok"
            /\ Len(out[t].value) = Len(Criterions)
            /\ \A c \in 1..Len(Criterions) : out[t].value[c] = MeanDistinct(Criterions[c])

\* C6: for a table with users, diversity returns for each criterion the
\* mean over the users of the number of distinct labels of the user's
\* recommended items, missing values ignored.
C6_MeanDistinctLabels ==
    \A t \in Threads :
        (Done(t, "diversity") /\ top_n_df # <<>>) =>
            /\ out[t].status = "ok"
            /\ \A c \in 1..Len(Criterions) : out[t].value[c] = MeanDistinct(Criterions[c])

\* C6 where no user lacks all catalogue rows (not a claim: the part of C6
\* the code satisfies)
MeanDistinctWhenSomePresent ==
    \A t \in Threads :
        (Done(t, "diversity") /\ top_n_df # <<>> /\ ~ \E u \in RecUsers : AllAbsent(u)) =>
            /\ out[t].status = "ok"
            /\ \A c \in 1..Len(Criterions) : out[t].value[c] = MeanDistinct(Criterions[c])

\* one user, two items with categories {A,B} and {B,C}: the mean is 3
ExampleThreeLabels ==
    /\ Done(1, "diversity")
    /\ UsersOf(top_n_df) = {"u1"}
    /\ Len(top_n_df) = 2
    /\ out[1].status = "ok"
    /\ out[1].value[1] = <<3, 1>>

----------------------------------------------------------------------------
(* SpecRuns: one thread repeats one call with the same arguments, each run *)
(* starting from the generator state the run before left                   *)

InitRuns ==
    /\ ratings_df \in SeqsUpTo(RatingRows, MaxRunRows)
    /\ top_n_df = <<>>
    /\ games_df = <<>>
    /\ InitCommon

FirstCall(t) ==
    /\ prev = NoRun
    /\ \E fn \in {"split_ratings_dataset", "split_testing_set"},
          seed \in Seeds, frac \in Fracs : EnterWith(t, fn, seed, frac)
    /\ entry' = [entry EXCEPT ![t] = rng]
    /\ UNCHANGED prev

RepeatCall(t) ==
    /\ prev # NoRun
    /\ EnterWith(t, prev.call.fn, prev.call.seed, prev.call.frac)
    /\ entry' = [entry EXCEPT ![t] = rng]
    /\ UNCHANGED prev

ReturnRecord(t) ==
    /\ pc[t] = "done"
    /\ prev' = [call |-> call[t], entry |-> entry[t], out |-> out[t]]
    /\ pc' = [pc EXCEPT ![t] = "idle"]
    /\ call' = [call EXCEPT ![t] = NoCall]
    /\ out' = [out EXCEPT ![t] = NoOut]
    /\ UNCHANGED <<ratings_df, top_n_df, games_df, rng, loc, entry, touched>>

NextRuns ==
    \/ FirstCall(1)
    \/ RepeatCall(1)
    \/ ShuffleUsers(1)
    \/ SampleNextGroup(1)
    \/ ConcatReturn(1)
    \/ ReturnRecord(1)

SpecRuns == InitRuns /\ [][NextRuns]_vars

\* the output of a whole call started, after its seeding step, in state s
RunAlone(c, s) ==
    IF c.fn = "split_ratings_dataset"
    THEN LET r == SplitRatings(ratings_df, c.frac, s)
         IN  [status |-> "ok", first |-> r.train_df, second |-> r.test_df,
              value |-> <<>>]
    ELSE SplitTesting(ratings_df, c.frac, s)

\* the split leaves something to chance: a cohort boundary inside the users,
\* or a user with different rows, some known and some held out
Undetermined(c) ==
    IF c.fn = "split_ratings_dataset"
    THEN LET k == Cardinality(UsersOf(ratings_df))
         IN  0 < TrainSize(c.frac, k) /\ TrainSize(c.frac, k) < k
    ELSE \E u \in UsersOf(ratings_df) :
            LET n == Len(RowsOf(ratings_df, {u}))
            IN  /\ 0 < KnownSize(c.frac, n) /\ KnownSize(c.frac, n) < n
                /\ Cardinality(Range(RowsOf(ratings_df, {u}))) > 1

\* C5: a run with a seed returns what the run before it, with the same
\* table, frac and seed, returned, whatever state the generator was in when
\* each began; without a seed there are generator states from which the
\* same call returns different outputs.
C5_SeededRunsAgree ==
    /\ (pc[1] = "done" /\ prev # NoRun /\ call[1].seed # None) =>
          out[1] = prev.out
    /\ (pc[1] = "done" /\ call[1].seed = None /\ Undetermined(call[1])) =>
          \E s1, s2 \in RngStates : RunAlone(call[1], s1) # RunAlone(call[1], s2)

C5_Witness ==
    /\ pc[1] = "done"
    /\ prev # NoRun
    /\ call[1].seed # None
    /\ prev.entry # entry[1]
    /\ Undetermined(call[1])
    /\ out[1] = prev.out

\* two unseeded runs of the same call that differ (reachable, not a claim)
UnseededRunsDiffer ==
    /\ pc[1] = "done"
    /\ prev # NoRun
    /\ call[1].seed = None
    /\ out[1] # prev.out

----------------------------------------------------------------------------
(* SpecThreads: two threads of one process call the four functions on the  *)
(* same tables, their steps interleaved in any order                       *)

\* rows of two users, one of them with two different ratings
ThreadRows ==
    {[bgg_user_name |-> "u1", bgg_id |-> i] : i \in Items}
    \cup {[bgg_user_name |-> "u2", bgg_id |-> 1]}

InitThreads ==
    /\ ratings_df \in SeqsUpTo(ThreadRows, MaxThreadRows)
    /\ top_n_df = <<[bgg_user_name |-> "u1", bgg_id |-> 1],
                    [bgg_user_name |-> "u2", bgg_id |-> 2]>>
    /\ games_df = <<[bgg_id |-> 1, category |-> <<"A", "B">>, mechanic |-> <<>>],
                    [bgg_id |-> 2, category |-> <<"B", "C">>, mechanic |-> <<"M">>]>>
    /\ InitCommon

NextThreads ==
    \E t \in Threads :
        \/ CallSplitRatingsDefault(t)
        \/ CallSplitTestingDefault(t)
        \/ ShuffleUsers(t)
        \/ SampleNextGroup(t)
        \/ ConcatReturn(t)
        \/ Coverage(t)
        \/ Diversity(t)
        \/ Return(t)

SpecThreads == InitThreads /\ [][NextThreads]_vars

IsSplit(c) == c.fn \in {"split_ratings_dataset", "split_testing_set"}

\* C9: no step of any call changes a table of the caller: the rows of
\* ratings_df, top_n_df and games_df stay the same, in the same order.
C9_InputsUnchanged ==
    [][/\ ratings_df' = ratings_df
       /\ top_n_df' = top_n_df
       /\ games_df' = games_df]_vars

\* both splits have run, the shuffle having moved the users, and the tables
\* are there as they were built
C9_Witness ==
    /\ Done(1, "split_ratings_dataset")
    /\ Done(2, "split_testing_set")
    /\ Len(ratings_df) = MaxThreadRows
    /\ Cardinality(UsersOf(ratings_df)) = 2
    /\ out[1].first # <<>>
    /\ out[1].first[1].bgg_user_name # ratings_df[1].bgg_user_name
    /\ top_n_df # <<>>

\* C10: a split call with an explicit seed, during which no other thread
\* seeded or drew, returns what it returns when run alone, whatever calls
\* to coverage and diversity and whatever finished calls surround it (the
\* generator is the only state the calls share, and coverage and diversity
\* leave it alone).
C10_UntouchedRunsAlone ==
    \A t \in Threads :
        (pc[t] = "done" /\ IsSplit(call[t]) /\ call[t].seed # None /\ ~touched[t]) =>
            out[t] = RunAlone(call[t], SeedState(call[t].seed))

\* a seeded call during which the other thread seeded or drew, and whose
\* output is not its run-alone output
C10_Witness ==
    \E t \in Threads :
        /\ pc[t] = "done"
        /\ IsSplit(call[t])
        /\ call[t].seed # None
        /\ touched[t]
        /\ out[t] # RunAlone(call[t], SeedState(call[t].seed))

====
